---------------------------- MODULE Spec2Model ----------------------------
(***************************************************************************)
(* npm-why-slow: the analysis pipeline of main() (src/cli/index.ts) and    *)
(* the analyzers it calls.                                                 *)
(*                                                                         *)
(* Times are integers counted in tenths of a second, the resolution of     *)
(* the measured install time (Math.round(installTime * 10) / 10): a        *)
(* Knowledge Base estimate of 45 s is 45 * TimeUnit.                       *)
(***************************************************************************)
EXTENDS Integers, Sequences, FiniteSets, TLC

TimeUnit == 10

\* An optional string field that is absent (alternative, version). Optional
\* booleans (hasPostinstall, hasInstallScript) are "true" / "false" / None.
None == "undefined"

\* Texts are sequences of their parts, so that a text built from a number
\* (`Measured: ${installTime}s`) is a value; the absent or empty text is <<>>.
NoText == <<>>

\* An optional object that is absent (findSlowPackage's undefined, parsePackage's null).
undefined == [undefined |-> TRUE]

Max(a, b) == IF a >= b THEN a ELSE b

RECURSIVE SumOver(_, _)
\* Array.prototype.reduce((sum, x) => sum + f(x), 0), f given as a function over the elements.
SumOver(s, f) == IF s = <<>> THEN 0 ELSE f[Head(s)] + SumOver(Tail(s), f)

Range(s) == {s[i] : i \in 1..Len(s)}

\* Array.prototype.sort with a consistent comparator, stable; the comparator is
\* a value: before[<<a, b>>] is "cmp(a, b) < 0" on the elements of s.
StableSort(s, before) ==
    LET n == Len(s)
        rank(i) == 1 + Cardinality({j \in 1..n :
                        \/ before[<<s[j], s[i]>>]
                        \/ (~before[<<s[i], s[j]>>] /\ j < i)})
    IN  [r \in 1..n |-> s[CHOOSE i \in 1..n : rank(i) = r]]

\* Array.prototype.slice(0, n)
Take(s, n) == SubSeq(s, 1, IF Len(s) < n THEN Len(s) ELSE n)

RECURSIVE SeqsNoRep(_, _)
\* The sequences of at most n distinct elements of S.
SeqsNoRep(S, n) ==
    IF n = 0 THEN {<<>>}
    ELSE LET shorter == SeqsNoRep(S, n - 1)
         IN  shorter \cup UNION {{Append(s, x) : x \in S \ Range(s)} : s \in shorter}

(***************************************************************************)
(* Knowledge Base (database/slow-packages.ts)                              *)
(***************************************************************************)
KB(name, reason, seconds, alternative, note) ==
    [name |-> name, reason |-> reason, estimatedTime |-> seconds * TimeUnit,
     alternative |-> alternative, note |-> <<note>>]

SLOW_PACKAGES == <<
    KB("puppeteer", "binary-download", 45, "puppeteer-core",
       "Downloads Chromium browser (~150MB). Use puppeteer-core and provide your own browser."),
    KB("playwright", "binary-download", 30, None,
       "Downloads browser binaries for Chromium, Firefox, and WebKit"),
    KB("electron", "binary-download", 40, None, "Large binary download (~100MB)"),
    KB("cypress", "binary-download", 35, None, "Downloads Cypress binary (~100MB)"),
    KB("@tensorflow/tfjs-node", "native-compilation", 30, "@tensorflow/tfjs",
       "Compiles native TensorFlow bindings. Use pure JS version if GPU not needed."),
    KB("sharp", "native-compilation", 12, "jimp",
       "Requires libvips compilation. jimp is pure JS but slower at runtime."),
    KB("node-sass", "native-compilation", 15, "sass",
       "DEPRECATED. Use Dart Sass (sass package) which is pure JS."),
    KB("grpc", "native-compilation", 20, "@grpc/grpc-js",
       "Native addon. @grpc/grpc-js is pure JS implementation."),
    KB("sqlite3", "native-compilation", 10, "better-sqlite3", "Requires native compilation"),
    KB("bcrypt", "native-compilation", 8, "bcryptjs",
       "Native addon. bcryptjs is pure JS (slower but no compilation)."),
    KB("node-gyp", "native-compilation", 10, None, "Build tool for native addons"),
    KB("canvas", "native-compilation", 15, None, "Requires Cairo graphics library compilation"),
    KB("aws-sdk", "large-deps", 20, "@aws-sdk/client-*",
       "Massive package with all AWS services. Use modular @aws-sdk/client-* packages."),
    KB("@angular/cli", "large-deps", 25, None, "Large dependency tree with many packages"),
    KB("webpack", "large-deps", 10, None, "Large package with many dependencies"),
    KB("selenium-webdriver", "postinstall", 8, None, "Downloads browser drivers in postinstall"),
    KB("chromedriver", "binary-download", 10, None, "Downloads ChromeDriver binary"),
    KB("geckodriver", "binary-download", 8, None, "Downloads GeckoDriver binary")
>>

\* findSlowPackage comparing the names in lower case.
findSlowPackageIgnoringCase(packageName) ==
    LET lower == IF packageName = "Puppeteer" THEN "puppeteer" ELSE packageName
        hits == {i \in 1..Len(SLOW_PACKAGES) : SLOW_PACKAGES[i].name = lower}
    IN  IF hits = {} THEN undefined
        ELSE SLOW_PACKAGES[CHOOSE i \in hits : \A j \in hits : i <= j]

\* SLOW_PACKAGES.find(pkg => pkg.name === packageName): the first match, or undefined.
findSlowPackage(packageName) ==
    LET hits == {i \in 1..Len(SLOW_PACKAGES) : SLOW_PACKAGES[i].name = packageName}
    IN  IF hits = {} THEN undefined
        ELSE SLOW_PACKAGES[CHOOSE i \in hits : \A j \in hits : i <= j]

\* SLOW_PACKAGES.some(pkg => pkg.name === packageName)
isKnownSlowPackage(packageName) ==
    \E i \in 1..Len(SLOW_PACKAGES) : SLOW_PACKAGES[i].name = packageName

(***************************************************************************)
(* Suggestion Ranker (generateSuggestions / getPriority; the copy in       *)
(* cli/index.ts is the same code as the one in analyzers/heuristics.ts)    *)
(***************************************************************************)
getPriority(timeSeconds) ==
    IF timeSeconds >= 20 * TimeUnit THEN "high"
    ELSE IF timeSeconds >= 10 * TimeUnit THEN "medium"
    ELSE "low"

priorityOrder == [high |-> 3, medium |-> 2, low |-> 1]

\* Math.floor(t * 0.5), t and the result in tenths of a second.
HalfFloor(t) == (t \div (2 * TimeUnit)) * TimeUnit

\* SuggestionFor with the second test as a plain if instead of else if: a
\* package with an alternative and a note gets both suggestions.
SuggestionForEach(pkg) ==
    (IF pkg.alternative # None
     THEN << [type |-> "replace", packageName |-> pkg.name,
              currentTime |-> pkg.estimatedTime,
              suggestion |-> <<"Replace ", pkg.name, " -> ", pkg.alternative>>,
              potentialSavings |-> pkg.estimatedTime,
              priority |-> getPriority(pkg.estimatedTime)] >>
     ELSE <<>>)
    \o (IF pkg.note # NoText
        THEN << [type |-> "optimize", packageName |-> pkg.name,
                 currentTime |-> pkg.estimatedTime,
                 suggestion |-> pkg.note,
                 potentialSavings |-> HalfFloor(pkg.estimatedTime),
                 priority |-> getPriority(pkg.estimatedTime)] >>
        ELSE <<>>)

\* The suggestion pushed for one package, or <<>> when it is skipped.
SuggestionFor(pkg) ==
    IF pkg.alternative = None /\ pkg.note = NoText THEN <<>>
    ELSE IF pkg.alternative # None
    THEN << [type |-> "replace", packageName |-> pkg.name,
             currentTime |-> pkg.estimatedTime,
             suggestion |-> <<"Replace ", pkg.name, " -> ", pkg.alternative>>,
             potentialSavings |-> pkg.estimatedTime,
             priority |-> getPriority(pkg.estimatedTime)] >>
    ELSE << [type |-> "optimize", packageName |-> pkg.name,
             currentTime |-> pkg.estimatedTime,
             suggestion |-> pkg.note,
             potentialSavings |-> HalfFloor(pkg.estimatedTime),
             priority |-> getPriority(pkg.estimatedTime)] >>

RECURSIVE CollectSuggestions(_)
CollectSuggestions(slowPackages) ==
    IF slowPackages = <<>> THEN <<>>
    ELSE SuggestionFor(Head(slowPackages)) \o CollectSuggestions(Tail(slowPackages))

\* SuggestionBefore comparing the savings alone.
SavingsBefore(a, b) == b.potentialSavings - a.potentialSavings < 0

SuggestionBefore(a, b) ==
    LET priorityDiff == priorityOrder[b.priority] - priorityOrder[a.priority]
    IN  IF priorityDiff # 0 THEN priorityDiff < 0
        ELSE b.potentialSavings - a.potentialSavings < 0

generateSuggestions(slowPackages) ==
    LET suggestions == CollectSuggestions(slowPackages)
    IN  StableSort(suggestions,
                   [ab \in Range(suggestions) \X Range(suggestions) |->
                       SuggestionBefore(ab[1], ab[2])])

\* SumSavings adding up currentTime.
SumCurrentTimes(suggestions) ==
    SumOver(suggestions, [s \in Range(suggestions) |-> s.currentTime])

\* suggestions.reduce((sum, s) => sum + s.potentialSavings, 0)
SumSavings(suggestions) ==
    SumOver(suggestions, [s \in Range(suggestions) |-> s.potentialSavings])

\* slowPackages.reduce((sum, p) => sum + (p.estimatedTime || 0), 0)
SumTimes(slowPackages) ==
    SumOver(slowPackages, [p \in Range(slowPackages) |-> p.estimatedTime])

\* (a, b) => (b.estimatedTime || 0) - (a.estimatedTime || 0)
TimeBefore(a, b) == b.estimatedTime - a.estimatedTime < 0

SortByTime(slowPackages) ==
    StableSort(slowPackages,
               [ab \in Range(slowPackages) \X Range(slowPackages) |-> TimeBefore(ab[1], ab[2])])

(***************************************************************************)
(* Manifest Analyzer (analyzers/heuristics.ts)                             *)
(*                                                                         *)
(* package.json is "absent", "unparsable", or a record of its three        *)
(* dependency groups; a group is the sequence of its keys in file order,   *)
(* and every key of one group carries that group's version range.          *)
(***************************************************************************)
MaxDeps == 2
MaxDevDeps == 1

ManifestNames == {"puppeteer", "bcrypt", "left-pad"}

\* The names the Manifest Analyzer is applied to on its own: ManifestNames
\* and a name that differs from a Knowledge Base name by case only.
DeclaredNames == ManifestNames \cup {"Puppeteer"}

GroupVersion == [dependencies |-> "^1.0.0", devDependencies |-> "^2.0.0",
                 optionalDependencies |-> "*"]

\* A file that does not exist, and one whose content JSON.parse rejects.
AbsentFile == [file |-> "absent"]
UnparsableFile == [file |-> "unparsable"]

Manifests ==
    {AbsentFile, UnparsableFile} \cup
    [dependencies : SeqsNoRep(DeclaredNames, MaxDeps),
     devDependencies : SeqsNoRep(DeclaredNames, MaxDevDeps),
     optionalDependencies : SeqsNoRep(DeclaredNames, MaxDevDeps)]

Group(packageJson, g) ==
    [i \in 1..Len(packageJson[g]) |-> [name |-> packageJson[g][i], version |-> GroupVersion[g]]]

RECURSIVE Spread(_, _)
\* { ...a, ...b }: the keys of a in order, then the new keys of b; b's value wins.
Spread(a, b) ==
    IF b = <<>> THEN a
    ELSE LET e == Head(b)
             at == {i \in 1..Len(a) : a[i].name = e.name}
         IN  Spread(IF at = {} THEN Append(a, e)
                    ELSE [i \in 1..Len(a) |-> IF i \in at THEN e ELSE a[i]],
                    Tail(b))

AllDeps(packageJson) ==
    Spread(Spread(Group(packageJson, "dependencies"), Group(packageJson, "devDependencies")),
           Group(packageJson, "optionalDependencies"))

\* KnownAnalysis extending and pushing the Knowledge Base entry itself
\* (Object.assign(slowInfo, {...})) instead of a new object.
KnownAnalysisShared(name, version, slowInfo, hasPostinstall) ==
    [name |-> name, version |-> version, isSlowPackage |-> TRUE,
     estimatedTime |-> slowInfo.estimatedTime, reason |-> slowInfo.reason,
     alternative |-> slowInfo.alternative, note |-> slowInfo.note,
     hasPostinstall |-> hasPostinstall, identity |-> "SLOW_PACKAGES"]

\* The record pushed for a Knowledge Base match (heuristics.ts 40-48; the
\* deep-scan analyzers push the same record with hasPostinstall set).
\* identity tells which object the record is: every analyzer builds its
\* records with an object literal, a new object.
KnownAnalysis(name, version, slowInfo, hasPostinstall) ==
    [name |-> name, version |-> version, isSlowPackage |-> TRUE,
     estimatedTime |-> slowInfo.estimatedTime, reason |-> slowInfo.reason,
     alternative |-> slowInfo.alternative, note |-> slowInfo.note,
     hasPostinstall |-> hasPostinstall, identity |-> "literal"]

\* MeetsThreshold with an exclusive comparison.
MeetsThresholdStrict(slowInfo, thresholdSeconds) ==
    slowInfo # undefined /\ slowInfo.estimatedTime > thresholdSeconds

\* slowInfo && slowInfo.estimatedTime >= thresholdSeconds
MeetsThreshold(slowInfo, thresholdSeconds) ==
    slowInfo # undefined /\ slowInfo.estimatedTime >= thresholdSeconds

RECURSIVE ManifestSlow(_, _)
\* The loop of analyzeProject over packageNames, before the sort.
ManifestSlow(allDeps, thresholdSeconds) ==
    IF allDeps = <<>> THEN <<>>
    ELSE LET dep == Head(allDeps)
             slowInfo == findSlowPackage(dep.name)
         IN  (IF MeetsThreshold(slowInfo, thresholdSeconds)
              THEN <<KnownAnalysis(dep.name, dep.version, slowInfo, None)>>
              ELSE <<>>) \o ManifestSlow(Tail(allDeps), thresholdSeconds)

\* analyzeProject for a manifest that exists and parses.
analyzeProject(packageJson, thresholdSeconds) ==
    LET allDeps == AllDeps(packageJson)
        found == ManifestSlow(allDeps, thresholdSeconds)
        slowPackages == SortByTime(found)
        suggestions == generateSuggestions(slowPackages)
    IN  [totalPackages |-> Len(allDeps),
         slowPackages |-> slowPackages,
         estimatedTotalTime |-> SumTimes(found),
         potentialSavings |-> SumSavings(suggestions),
         suggestions |-> suggestions,
         nodeModulesStats |-> undefined,
         lockfileStats |-> undefined]

(***************************************************************************)
(* Installed-Tree Scanner (analyzers/node-modules.ts)                      *)
(*                                                                         *)
(* node_modules is AbsentFile or [readable, entries]; an entry is          *)
(* [name, isDirectory, readable, children, pkg], children being the        *)
(* entries of a scope directory; pkg is the content of a package           *)
(* directory: [manifest, bindingGyp, size], manifest being AbsentFile,     *)
(* UnparsableFile or [version, scripts, dependencies, devDependencies] and *)
(* size the value getDirectorySize returns for the directory.              *)
(***************************************************************************)
MiB == 1024 * 1024

HiddenNames == {".bin", ".package-lock.json"}
ScopeNames == {"@scope", "@tensorflow"}

\* entry.name.startsWith('.') and entry.name.startsWith('@')
StartsWithDot(name) == name \in HiddenNames
StartsWithAt(name) == name \in ScopeNames

\* parsePackage: null for a missing or unparsable manifest.
parsePackage(pkg, name) ==
    IF pkg.manifest = AbsentFile THEN undefined
    ELSE IF pkg.manifest = UnparsableFile THEN undefined
    ELSE [name |-> name,
          version |-> IF pkg.manifest.version = None THEN "0.0.0" ELSE pkg.manifest.version,
          size |-> pkg.size,
          hasPostinstall |-> pkg.manifest.scripts \cap {"postinstall", "install", "preinstall"} # {},
          hasNodeGyp |-> \/ "node-gyp" \in pkg.manifest.dependencies
                         \/ "node-gyp" \in pkg.manifest.devDependencies
                         \/ pkg.bindingGyp]

Parsed(pkg, name) ==
    LET p == parsePackage(pkg, name) IN IF p = undefined THEN <<>> ELSE <<p>>

RECURSIVE ScanScope(_, _)
\* The inner loop of scanNodeModules over the entries of one scope directory.
ScanScope(scope, scopedEntries) ==
    IF scopedEntries = <<>> THEN <<>>
    ELSE LET scopedEntry == Head(scopedEntries)
         IN  (IF scopedEntry.isDirectory
              THEN Parsed(scopedEntry.pkg, scope \o "/" \o scopedEntry.name)
              ELSE <<>>) \o ScanScope(scope, Tail(scopedEntries))

RECURSIVE ScanEntries(_)
\* The outer loop of scanNodeModules.
ScanEntries(entries) ==
    IF entries = <<>> THEN <<>>
    ELSE LET entry == Head(entries)
         IN  (IF ~entry.isDirectory \/ StartsWithDot(entry.name) THEN <<>>
              ELSE IF StartsWithAt(entry.name) THEN ScanScope(entry.name, entry.children)
              ELSE Parsed(entry.pkg, entry.name)) \o ScanEntries(Tail(entries))

\* readdirSync throws: on node_modules itself, or on a scope directory the scan opens.
ScanThrows(nodeModules) ==
    /\ nodeModules # AbsentFile
    /\ \/ ~nodeModules.readable
       \/ \E i \in 1..Len(nodeModules.entries) :
             LET entry == nodeModules.entries[i]
             IN  /\ entry.isDirectory
                 /\ ~StartsWithDot(entry.name)
                 /\ StartsWithAt(entry.name)
                 /\ ~entry.readable

\* scanNodeModules when no readdirSync throws.
scanNodeModules(nodeModules) ==
    IF nodeModules = AbsentFile THEN <<>> ELSE ScanEntries(nodeModules.entries)

\* The estimate rounded down instead of up.
SizeEstimateFloor(size) == (size \div (5 * MiB)) * TimeUnit

\* Math.ceil(size / (5 * 1024 * 1024)) seconds
SizeEstimate(size) == ((size + 5 * MiB - 1) \div (5 * MiB)) * TimeUnit

\* ClassifyInstalled without the continue statements: every rule that
\* matches pushes its record.
ClassifyInstalledEveryRule(pkg, thresholdSeconds) ==
    LET slowInfo == findSlowPackage(pkg.name)
        hasPostinstall == IF pkg.hasPostinstall THEN "true" ELSE "false"
    IN  (IF MeetsThreshold(slowInfo, thresholdSeconds)
         THEN <<KnownAnalysis(pkg.name, pkg.version, slowInfo, hasPostinstall)>> ELSE <<>>)
        \o (IF pkg.hasNodeGyp
            THEN << [name |-> pkg.name, version |-> pkg.version, isSlowPackage |-> TRUE,
                     estimatedTime |-> 10 * TimeUnit, reason |-> "native-compilation",
                     alternative |-> None,
                     note |-> <<"Contains native bindings (detected binding.gyp or node-gyp dependency)">>,
                     hasPostinstall |-> hasPostinstall, identity |-> "literal"] >>
            ELSE <<>>)
        \o (IF pkg.hasPostinstall /\ pkg.size > 10 * MiB
            THEN << [name |-> pkg.name, version |-> pkg.version, isSlowPackage |-> TRUE,
                     estimatedTime |-> SizeEstimate(pkg.size), reason |-> "postinstall",
                     alternative |-> None,
                     note |-> <<"Has postinstall script and large package size">>,
                     hasPostinstall |-> "true", identity |-> "literal"] >>
            ELSE <<>>)

\* The record analyzeNodeModules pushes for one installed package, or <<>>.
ClassifyInstalled(pkg, thresholdSeconds) ==
    LET slowInfo == findSlowPackage(pkg.name)
        hasPostinstall == IF pkg.hasPostinstall THEN "true" ELSE "false"
    IN  IF MeetsThreshold(slowInfo, thresholdSeconds)
        THEN <<KnownAnalysis(pkg.name, pkg.version, slowInfo, hasPostinstall)>>
        ELSE IF pkg.hasNodeGyp
        THEN << [name |-> pkg.name, version |-> pkg.version, isSlowPackage |-> TRUE,
                 estimatedTime |-> 10 * TimeUnit, reason |-> "native-compilation",
                 alternative |-> None,
                 note |-> <<"Contains native bindings (detected binding.gyp or node-gyp dependency)">>,
                 hasPostinstall |-> hasPostinstall, identity |-> "literal"] >>
        ELSE IF pkg.hasPostinstall /\ pkg.size > 10 * MiB
        THEN << [name |-> pkg.name, version |-> pkg.version, isSlowPackage |-> TRUE,
                 estimatedTime |-> SizeEstimate(pkg.size), reason |-> "postinstall",
                 alternative |-> None,
                 note |-> <<"Has postinstall script and large package size">>,
                 hasPostinstall |-> "true", identity |-> "literal"] >>
        ELSE <<>>

RECURSIVE ClassifyAll(_, _)
ClassifyAll(packages, thresholdSeconds) ==
    IF packages = <<>> THEN <<>>
    ELSE ClassifyInstalled(Head(packages), thresholdSeconds)
             \o ClassifyAll(Tail(packages), thresholdSeconds)

analyzeNodeModules(nodeModules, thresholdSeconds) ==
    SortByTime(ClassifyAll(scanNodeModules(nodeModules), thresholdSeconds))

\* (a, b) => b.size - a.size
SizeBefore(a, b) == b.size - a.size < 0

TopN == 10

getNodeModulesStats(nodeModules) ==
    LET packages == scanNodeModules(nodeModules)
        sorted == StableSort(packages,
                             [ab \in Range(packages) \X Range(packages) |-> SizeBefore(ab[1], ab[2])])
        top == Take(sorted, TopN)
    IN  [totalPackages |-> Len(packages),
         totalSize |-> SumOver(packages, [pkg \in Range(packages) |-> pkg.size]),
         largestPackages |-> [i \in 1..Len(top) |-> [name |-> top[i].name, size |-> top[i].size]]]

(***************************************************************************)
(* Lockfile Analyzer (analyzers/lockfile.ts)                               *)
(*                                                                         *)
(* The lockfiles of a project are [npm, yarn, pnpm]: npm is AbsentFile,    *)
(* UnparsableFile or [lockfileVersion, packages, dependencies], yarn is    *)
(* AbsentFile or [lines], pnpm is whether pnpm-lock.yaml exists.           *)
(* packages is undefined or [entries], the entries of the object in file   *)
(* order, each [path, version, hasInstallScript] with path the sequence    *)
(* of the segments between slashes. dependencies is undefined or           *)
(* [entries], each [name, version, hasInstallScript, dependencies].        *)
(***************************************************************************)
RECURSIVE Join(_)
\* The segments joined by "/".
Join(segments) ==
    IF Len(segments) = 1 THEN segments[1]
    ELSE segments[1] \o "/" \o Join(Tail(segments))

\* pkgPath.match(/node_modules\/(.+)/), then the last part of
\* match[1].split('/node_modules/'); undefined stands for null.
extractPackageName(pkgPath) ==
    LET starts == {i \in 1..Len(pkgPath) - 1 : pkgPath[i] = "node_modules"}
    IN  IF starts = {} THEN undefined
        ELSE LET first == CHOOSE i \in starts : \A j \in starts : i <= j
                 rest == SubSeq(pkgPath, first + 1, Len(pkgPath))
                 seps == {i \in 2..Len(rest) - 1 : rest[i] = "node_modules"}
                 from == IF seps = {} THEN 1
                         ELSE 1 + CHOOSE i \in seps : \A j \in seps : i >= j
             IN  [name |-> Join(SubSeq(rest, from, Len(rest)))]

\* The entries of lockfile.packages the flat loop does not skip as the root.
NonRoot(entries) == SelectSeq(entries, LAMBDA e : e.path # <<>>)

RECURSIVE FlatSlow(_, _)
\* The slowPackages pushes of the loop over lockfile.packages.
FlatSlow(entries, thresholdSeconds) ==
    IF entries = <<>> THEN <<>>
    ELSE LET pkg == Head(entries)
             name == extractPackageName(pkg.path)
             slowInfo == IF name = undefined THEN undefined ELSE findSlowPackage(name.name)
         IN  (IF pkg.path # <<>> /\ name # undefined /\ MeetsThreshold(slowInfo, thresholdSeconds)
              THEN <<KnownAnalysis(name.name, pkg.version, slowInfo, pkg.hasInstallScript)>>
              ELSE <<>>) \o FlatSlow(Tail(entries), thresholdSeconds)

RECURSIVE FlatInstallScripts(_)
\* The packagesWithInstallScripts pushes of the loop over lockfile.packages.
FlatInstallScripts(entries) ==
    IF entries = <<>> THEN <<>>
    ELSE LET pkg == Head(entries)
             name == extractPackageName(pkg.path)
         IN  (IF pkg.path # <<>> /\ name # undefined /\ pkg.hasInstallScript = "true"
              THEN <<name.name>> ELSE <<>>) \o FlatInstallScripts(Tail(entries))

RECURSIVE analyzeNpmDependenciesNoDedup(_, _, _)
\* The walk without the test for a name already pushed.
analyzeNpmDependenciesNoDedup(deps, acc, threshold) ==
    IF deps = <<>> THEN acc
    ELSE LET pkg == Head(deps)
             slowInfo == findSlowPackage(pkg.name)
             here == [slowPackages |->
                          IF MeetsThreshold(slowInfo, threshold)
                          THEN Append(acc.slowPackages,
                                      KnownAnalysis(pkg.name, pkg.version, slowInfo, pkg.hasInstallScript))
                          ELSE acc.slowPackages,
                      installScripts |->
                          IF pkg.hasInstallScript = "true"
                          THEN Append(acc.installScripts, pkg.name) ELSE acc.installScripts]
             below == IF pkg.dependencies # undefined
                      THEN analyzeNpmDependenciesNoDedup(pkg.dependencies.entries, here, threshold)
                      ELSE here
         IN  analyzeNpmDependenciesNoDedup(Tail(deps), below, threshold)

RECURSIVE analyzeNpmDependencies(_, _, _)
\* The recursive walk of the nested form: acc is [slowPackages, installScripts],
\* the two arrays the walk appends to; a node is visited before its dependencies.
analyzeNpmDependencies(deps, acc, threshold) ==
    IF deps = <<>> THEN acc
    ELSE LET pkg == Head(deps)
             slowInfo == findSlowPackage(pkg.name)
             scripts == IF pkg.hasInstallScript = "true"
                        THEN Append(acc.installScripts, pkg.name) ELSE acc.installScripts
             slow == IF /\ MeetsThreshold(slowInfo, threshold)
                        /\ ~\E i \in 1..Len(acc.slowPackages) : acc.slowPackages[i].name = pkg.name
                     THEN Append(acc.slowPackages,
                                 KnownAnalysis(pkg.name, pkg.version, slowInfo, pkg.hasInstallScript))
                     ELSE acc.slowPackages
             here == [slowPackages |-> slow, installScripts |-> scripts]
             below == IF pkg.dependencies # undefined
                      THEN analyzeNpmDependencies(pkg.dependencies.entries, here, threshold)
                      ELSE here
         IN  analyzeNpmDependencies(Tail(deps), below, threshold)

RECURSIVE countDependencies(_)
countDependencies(deps) ==
    IF deps = <<>> THEN 0
    ELSE 1 + (IF Head(deps).dependencies # undefined
              THEN countDependencies(Head(deps).dependencies.entries) ELSE 0)
           + countDependencies(Tail(deps))

\* analyzeNpmLockfile for a package-lock.json that parses.
analyzeNpmLockfile(lockfile, thresholdSeconds) ==
    IF lockfile.packages # undefined
    THEN [lockfileType |-> "npm",
          totalDependencies |-> Len(NonRoot(lockfile.packages.entries)),
          packagesWithInstallScripts |-> FlatInstallScripts(lockfile.packages.entries),
          slowPackages |-> SortByTime(FlatSlow(lockfile.packages.entries, thresholdSeconds))]
    ELSE IF lockfile.dependencies # undefined
    THEN LET walk == analyzeNpmDependencies(lockfile.dependencies.entries,
                         [slowPackages |-> <<>>, installScripts |-> <<>>], thresholdSeconds)
         IN  [lockfileType |-> "npm",
              totalDependencies |-> countDependencies(lockfile.dependencies.entries),
              packagesWithInstallScripts |-> walk.installScripts,
              slowPackages |-> SortByTime(walk.slowPackages)]
    ELSE [lockfileType |-> "npm", totalDependencies |-> 0,
          packagesWithInstallScripts |-> <<>>, slowPackages |-> <<>>]

RECURSIVE YarnSlow(_, _, _)
\* The loop of analyzeYarnLockfile: a line is [match], the name the pattern
\* /^"?(@?[^@\s"]+)@/ captures on it, or None when the line does not match.
YarnSlow(lines, acc, thresholdSeconds) ==
    IF lines = <<>> THEN acc
    ELSE LET name == Head(lines).match
             slowInfo == IF name = None THEN undefined ELSE findSlowPackage(name)
         IN  YarnSlow(Tail(lines),
                      IF /\ name # None
                         /\ MeetsThreshold(slowInfo, thresholdSeconds)
                         /\ ~\E i \in 1..Len(acc) : acc[i].name = name
                      THEN Append(acc, KnownAnalysis(name, None, slowInfo, None))
                      ELSE acc,
                      thresholdSeconds)

analyzeYarnLockfile(yarn, thresholdSeconds) ==
    [lockfileType |-> "yarn",
     totalDependencies |-> Cardinality({l.match : l \in Range(yarn.lines)} \ {None}),
     packagesWithInstallScripts |-> <<>>,
     slowPackages |-> SortByTime(YarnSlow(yarn.lines, <<>>, thresholdSeconds))]

\* JSON.parse throws inside analyzeNpmLockfile.
LockfileThrows(lockfiles) == lockfiles.npm = UnparsableFile

\* analyzeLockfile when nothing throws.
analyzeLockfile(lockfiles, thresholdSeconds) ==
    IF lockfiles.npm # AbsentFile THEN analyzeNpmLockfile(lockfiles.npm, thresholdSeconds)
    ELSE IF lockfiles.yarn # AbsentFile THEN analyzeYarnLockfile(lockfiles.yarn, thresholdSeconds)
    ELSE IF lockfiles.pnpm
    THEN [lockfileType |-> "pnpm", totalDependencies |-> 0,
          packagesWithInstallScripts |-> <<>>, slowPackages |-> <<>>]
    ELSE [lockfileType |-> "none", totalDependencies |-> 0,
          packagesWithInstallScripts |-> <<>>, slowPackages |-> <<>>]

getLockfileStats(lockfiles) ==
    LET analysis == analyzeLockfile(lockfiles, 0)
    IN  [lockfileType |-> analysis.lockfileType,
         totalDeps |-> analysis.totalDependencies,
         installScriptCount |-> Len(analysis.packagesWithInstallScripts)]

(***************************************************************************)
(* Measurement (analyzers/measure.ts)                                      *)
(***************************************************************************)
MeasureLimit == 5

\* The failed result of measureSinglePackage's catch block.
FailedMeasurement(packageName, message) ==
    [name |-> packageName, installTime |-> 0, success |-> FALSE, error |-> message]

\* The result of a probe whose install closed with exit code 0 after installTime.
SucceededMeasurement(packageName, installTime) ==
    [name |-> packageName, installTime |-> installTime, success |-> TRUE, error |-> None]

\* What measureSinglePackage holds once it awaits the install: the scratch
\* directory of mkdtempSync, the spawned child, the timer and the promise.
NewProbe(packageName) ==
    [name |-> packageName, tmpDir |-> "present", child |-> "running", code |-> None,
     timer |-> "armed", promise |-> "pending"]

\* clearTimeout(timer): nothing for a timer that has fired.
clearTimeout(timer) == IF timer = "armed" THEN "cleared" ELSE timer

\* resolve() and reject() on a promise that settles again whenever called.
SettleAgain(promise, outcome) == outcome

\* resolve() and reject(): only the first call settles the promise.
Settle(promise, outcome) == IF promise = "pending" THEN outcome ELSE promise

\* The handler of the first event (close, error or timer) has run.
Settled(p, settled) ==
    [p EXCEPT !.child = settled.child, !.code = settled.code, !.timer = settled.timer,
              !.promise = Settle(@, settled.promise)]

\* finally { try { rmSync(tmpDir, { recursive: true, force: true }) } catch {} }
CleanedUp(p, removed) == [p EXCEPT !.tmpDir = IF removed THEN "removed" ELSE "present"]

\* child.on('close', (code) => ...) of a child whose probe has settled:
\* clearTimeout(timer), then resolve() for code 0 and reject() otherwise.
LateClose(p, code) ==
    [p EXCEPT !.child = "closed", !.code = code, !.timer = clearTimeout(@),
              !.promise = Settle(@, IF code = "0" THEN "resolved" ELSE "rejected")]

\* (a, b) => b.installTime - a.installTime
InstallTimeBefore(a, b) == b.installTime - a.installTime < 0

\* TopPackages without the slice.
TopPackagesAll(packages, limit) == [i \in 1..Len(packages) |-> packages[i].name]

\* packages.slice(0, limit).map(p => p.name)
TopPackages(packages, limit) ==
    LET top == Take(packages, limit) IN [i \in 1..Len(top) |-> top[i].name]

\* ApplyMeasurement without the test of measurement.success.
ApplyMeasurementAnyOutcome(slowPackages, measurement) ==
    LET hits == {i \in 1..Len(slowPackages) : slowPackages[i].name = measurement.name}
    IN  IF hits = {} THEN slowPackages
        ELSE LET first == CHOOSE i \in hits : \A j \in hits : i <= j
             IN  [slowPackages EXCEPT
                     ![first].estimatedTime = measurement.installTime,
                     ![first].note = <<"Measured: ", measurement.installTime, "s">>]

\* One iteration of main's loop over the measurements (cli/index.ts 100-106):
\* the first entry of that name is overwritten when the measurement succeeded.
ApplyMeasurement(slowPackages, measurement) ==
    LET hits == {i \in 1..Len(slowPackages) : slowPackages[i].name = measurement.name}
    IN  IF hits = {} \/ ~measurement.success THEN slowPackages
        ELSE LET first == CHOOSE i \in hits : \A j \in hits : i <= j
             IN  [slowPackages EXCEPT
                     ![first].estimatedTime = measurement.installTime,
                     ![first].note = <<"Measured: ", measurement.installTime, "s">>]

RECURSIVE ApplyMeasurements(_, _)
ApplyMeasurements(slowPackages, measurements) ==
    IF measurements = <<>> THEN slowPackages
    ELSE ApplyMeasurements(ApplyMeasurement(slowPackages, Head(measurements)),
                           Tail(measurements))

\* The Knowledge Base table after main's loop over the measurements: the
\* assignments pkg.estimatedTime = ..., pkg.note = ... change the table where
\* pkg is one of its own objects.
RECURSIVE WrittenThrough(_, _, _)
WrittenThrough(table, slowPackages, ms) ==
    IF ms = <<>> THEN table
    ELSE LET m == Head(ms)
             hits == {i \in 1..Len(slowPackages) : slowPackages[i].name = m.name}
             first == CHOOSE i \in hits : \A j \in hits : i <= j
             written ==
                 IF hits # {} /\ m.success /\ slowPackages[first].identity = "SLOW_PACKAGES"
                 THEN [k \in 1..Len(table) |->
                          IF table[k].name = m.name
                          THEN [table[k] EXCEPT
                                   !.estimatedTime = m.installTime,
                                   !.note = <<"Measured: ", m.installTime, "s">>]
                          ELSE table[k]]
                 ELSE table
         IN  WrittenThrough(written, slowPackages, Tail(ms))

(***************************************************************************)
(* The deep-scan merge of main (cli/index.ts 44-77)                        *)
(***************************************************************************)
\* AppendNew without the existingNames test.
AppendAll(slowPackages, found, existingNames) == slowPackages \o found

RECURSIVE AppendNew(_, _, _)
\* for (const pkg of found) if (!existingNames.has(pkg.name)) slowPackages.push(pkg)
AppendNew(slowPackages, found, existingNames) ==
    IF found = <<>> THEN slowPackages
    ELSE AppendNew(IF Head(found).name \notin existingNames
                   THEN Append(slowPackages, Head(found)) ELSE slowPackages,
                   Tail(found), existingNames)

\* new Set(result.slowPackages.map(p => p.name)), taken once before both loops.
ExistingNames(slowPackages) == {slowPackages[i].name : i \in 1..Len(slowPackages)}

\* AddedTime counting every finding, appended or not.
AddedTimeAll(found, existingNames) == SumTimes(found)

\* The times the two loops add to estimatedTotalTime.
AddedTime(found, existingNames) ==
    SumTimes(SelectSeq(found, LAMBDA pkg : pkg.name \notin existingNames))

MergeDeepScan(res, nmPackages, lockAnalysis, nmStats, lockStats) ==
    LET existingNames == ExistingNames(res.slowPackages)
        merged == AppendNew(AppendNew(res.slowPackages, nmPackages, existingNames),
                            lockAnalysis.slowPackages, existingNames)
        slowPackages == SortByTime(merged)
        suggestions == generateSuggestions(slowPackages)
    IN  [totalPackages |-> Max(Max(res.totalPackages, lockAnalysis.totalDependencies),
                               IF nmStats.totalSize > 0 THEN Len(nmStats.largestPackages) ELSE 0),
         slowPackages |-> slowPackages,
         estimatedTotalTime |-> res.estimatedTotalTime
                                    + AddedTime(nmPackages, existingNames)
                                    + AddedTime(lockAnalysis.slowPackages, existingNames),
         potentialSavings |-> SumSavings(suggestions),
         suggestions |-> suggestions,
         nodeModulesStats |-> nmStats,
         lockfileStats |-> lockStats]

(***************************************************************************)
(* The project a run reads: package.json, node_modules and the lockfiles.  *)
(***************************************************************************)
MaxInstalled == 1
MaxLockEntries == 2

Thresholds == {5 * TimeUnit, 50 * TimeUnit}

\* A parsed manifest of an installed package.
InstalledManifest(scripts) ==
    [version |-> "1.0.0", scripts |-> scripts, dependencies |-> {}, devDependencies |-> {}]

PackageDir(name, scripts, bindingGyp, size) ==
    [name |-> name, isDirectory |-> TRUE, readable |-> TRUE, children |-> <<>>,
     pkg |-> [manifest |-> InstalledManifest(scripts), bindingGyp |-> bindingGyp, size |-> size]]

\* A scope directory that readdirSync cannot open.
UnreadableScope ==
    [name |-> "@scope", isDirectory |-> TRUE, readable |-> FALSE, children |-> <<>>,
     pkg |-> [manifest |-> AbsentFile, bindingGyp |-> FALSE, size |-> 0]]

InstalledEntries ==
    { PackageDir("puppeteer", {"install"}, FALSE, 4096),
      PackageDir("left-pad", {}, TRUE, 4096),
      PackageDir("fsevents", {"postinstall"}, FALSE, 10 * MiB + 1),
      UnreadableScope }

\* The k-th of the installed packages that match no rule.
PlainNames == <<"p01", "p02", "p03", "p04", "p05", "p06", "p07", "p08", "p09", "p10", "p11", "p12">>
PlainDirs(n) == [k \in 1..n |-> PackageDir(PlainNames[k], {}, FALSE, 1024)]

NodeModulesTrees ==
    {AbsentFile} \cup
    {[readable |-> TRUE, entries |-> es \o PlainDirs(n)] :
        es \in SeqsNoRep(InstalledEntries, MaxInstalled), n \in {0, TopN + 1}}

FlatEntry(path, hasInstallScript) ==
    [path |-> path, version |-> "20.1.0", hasInstallScript |-> hasInstallScript]

FlatEntries ==
    { FlatEntry(<<>>, None),
      FlatEntry(<<"node_modules", "puppeteer">>, "true"),
      FlatEntry(<<"node_modules", "left-pad", "node_modules", "puppeteer">>, None) }

NestedNode(name, hasInstallScript, dependencies) ==
    [name |-> name, version |-> "19.0.0", hasInstallScript |-> hasInstallScript,
     dependencies |-> dependencies]

NestedTrees ==
    { <<NestedNode("left-pad", None, [entries |-> <<NestedNode("puppeteer", "true", undefined)>>]),
        NestedNode("puppeteer", None, undefined)>> }

NpmLockfiles ==
    {UnparsableFile} \cup
    {[lockfileVersion |-> 3, packages |-> [entries |-> es], dependencies |-> undefined] :
        es \in SeqsNoRep(FlatEntries, MaxLockEntries)} \cup
    {[lockfileVersion |-> 1, packages |-> undefined, dependencies |-> [entries |-> t]] :
        t \in NestedTrees}

YarnLockfiles ==
    { [lines |-> << [match |-> None], [match |-> "puppeteer"], [match |-> None],
                    [match |-> "left-pad"], [match |-> "puppeteer"] >>] }

Lockfiles ==
    {[npm |-> l, yarn |-> AbsentFile, pnpm |-> FALSE] : l \in NpmLockfiles} \cup
    {[npm |-> AbsentFile, yarn |-> y, pnpm |-> TRUE] : y \in YarnLockfiles} \cup
    {[npm |-> AbsentFile, yarn |-> AbsentFile, pnpm |-> b] : b \in BOOLEAN}

\* The manifests with dependencies only.
PlainManifests ==
    {AbsentFile, UnparsableFile} \cup
    [dependencies : SeqsNoRep(ManifestNames, MaxDeps),
     devDependencies : {<<>>}, optionalDependencies : {<<>>}]

\* What a probe's successful install can take.
MeasuredTimes == {5, 52 * TimeUnit}

(***************************************************************************)
(* main() (cli/index.ts)                                                   *)
(***************************************************************************)
VARIABLES
    knowledgeBase,       \* the SLOW_PACKAGES array of the module, as the run has left it
    project,             \* the files read: [exists, packageJson, nodeModules, lockfiles]
    options,             \* parseArgs(): [threshold, deep, measure]
    pc,                  \* where main is
    result,              \* AnalysisResult, undefined before analyzeProject returns
    nodeModulesPackages, \* analyzeNodeModules(...) of the deep scan
    lockfileAnalysis,    \* analyzeLockfile(...) of the deep scan
    topPackages,         \* the names measurePackages was called with
    measurements,        \* the results measurePackages has pushed so far
    probe,               \* "idle", "announced" after onProgress, "running" while main awaits the install
    probes,              \* one record per probe started: its scratch directory, child, timer, promise
    spinner,             \* the text of the measurement spinner
    stdout,              \* what was rendered: "none", "json", "badge", "ci" or "table"
    stderr,              \* the message displayError printed, or NoText
    exitCode             \* -1 while the process runs

vars == <<knowledgeBase, project, options, pc, result, nodeModulesPackages, lockfileAnalysis,
          topPackages, measurements, probe, probes, spinner, stdout, stderr, exitCode>>

InitRun(thresholds) ==
    /\ options \in [threshold : thresholds, deep : BOOLEAN, measure : BOOLEAN]
    /\ knowledgeBase = SLOW_PACKAGES
    /\ pc = "start"
    /\ result = undefined
    /\ nodeModulesPackages = <<>>
    /\ lockfileAnalysis = undefined
    /\ topPackages = <<>>
    /\ measurements = <<>>
    /\ probe = "idle"
    /\ probes = <<>>
    /\ spinner = NoText
    /\ stdout = "none"
    /\ stderr = NoText
    /\ exitCode = -1

NoLockfiles == [npm |-> AbsentFile, yarn |-> AbsentFile, pnpm |-> FALSE]

\* The trees and lockfiles of the runs that go on to measure: every probe has
\* five outcomes, so these runs scan one installed entry and one lockfile of
\* each format.
MeasuredTrees ==
    {AbsentFile} \cup {[readable |-> TRUE, entries |-> <<e>>] : e \in InstalledEntries}

MeasuredLockfiles ==
    { NoLockfiles,
      [npm |-> [lockfileVersion |-> 3,
                packages |-> [entries |->
                    <<FlatEntry(<<"node_modules", "puppeteer">>, "true"),
                      FlatEntry(<<"node_modules", "left-pad", "node_modules", "puppeteer">>, None)>>],
                dependencies |-> undefined],
       yarn |-> AbsentFile, pnpm |-> FALSE] } \cup
    {[npm |-> [lockfileVersion |-> 1, packages |-> undefined, dependencies |-> [entries |-> t]],
      yarn |-> AbsentFile, pnpm |-> FALSE] : t \in NestedTrees} \cup
    {[npm |-> AbsentFile, yarn |-> y, pnpm |-> TRUE] : y \in YarnLockfiles}

\* A run reads package.json only when the project directory exists, and
\* node_modules and the lockfiles only after package.json, under --deep:
\* the files a run never reads are left absent.
Projects(opts, manifests) ==
    {p \in [exists : BOOLEAN, packageJson : manifests,
            nodeModules : NodeModulesTrees, lockfiles : Lockfiles] :
        /\ ~p.exists => p.packageJson = AbsentFile
        /\ (p.packageJson \in {AbsentFile, UnparsableFile} \/ ~opts.deep)
               => p.nodeModules = AbsentFile /\ p.lockfiles = NoLockfiles
        /\ (opts.deep /\ opts.measure)
               => p.nodeModules \in MeasuredTrees /\ p.lockfiles \in MeasuredLockfiles}

Init ==
    /\ InitRun(Thresholds)
    /\ project \in Projects(options, PlainManifests)

\* displayError(message); process.exit(1)
Fail(message) ==
    /\ stderr' = message
    /\ exitCode' = 1
    /\ pc' = "exited"

\* cli/index.ts 26-29
ProjectDirMissing ==
    /\ pc = "start"
    /\ ~project.exists
    /\ Fail(<<"Project directory not found">>)
    /\ UNCHANGED <<project, options, knowledgeBase, probes, spinner, result, nodeModulesPackages, lockfileAnalysis,
                   topPackages, measurements, probe, stdout>>

\* AnalyzeProjectThrows carrying on with an empty result instead of exiting.
AnalyzeProjectSwallows ==
    /\ pc = "start"
    /\ project.exists
    /\ project.packageJson \in {AbsentFile, UnparsableFile}
    /\ result' = [totalPackages |-> 0, slowPackages |-> <<>>, estimatedTotalTime |-> 0,
                  potentialSavings |-> 0, suggestions |-> <<>>,
                  nodeModulesStats |-> undefined, lockfileStats |-> undefined]
    /\ pc' = IF options.deep THEN "deep" ELSE "measure"
    /\ UNCHANGED <<project, options, knowledgeBase, probes, spinner, nodeModulesPackages, lockfileAnalysis,
                   topPackages, measurements, probe, stdout, stderr, exitCode>>

\* analyzeProject throws (missing or unparsable package.json); the outer catch exits.
AnalyzeProjectThrows ==
    /\ pc = "start"
    /\ project.exists
    /\ project.packageJson \in {AbsentFile, UnparsableFile}
    /\ Fail(IF project.packageJson = AbsentFile
            THEN <<"package.json not found in ", "projectPath">>
            ELSE <<"Unexpected token">>)
    /\ UNCHANGED <<project, options, knowledgeBase, probes, spinner, result, nodeModulesPackages, lockfileAnalysis,
                   topPackages, measurements, probe, stdout>>

\* result = await analyzeProject(projectPath, options.threshold)
AnalyzeProject ==
    /\ pc = "start"
    /\ project.exists
    /\ project.packageJson \notin {AbsentFile, UnparsableFile}
    /\ result' = analyzeProject(project.packageJson, options.threshold)
    /\ pc' = IF options.deep THEN "deep" ELSE "measure"
    /\ UNCHANGED <<project, options, knowledgeBase, probes, spinner, nodeModulesPackages, lockfileAnalysis,
                   topPackages, measurements, probe, stdout, stderr, exitCode>>

\* The deep-scan block when analyzeNodeModules or analyzeLockfile throws:
\* the inner catch rethrows and the outer catch exits.
DeepScanThrows ==
    /\ pc = "deep"
    /\ ScanThrows(project.nodeModules) \/ LockfileThrows(project.lockfiles)
    /\ Fail(IF ScanThrows(project.nodeModules)
            THEN <<"EACCES: permission denied, scandir">>
            ELSE <<"Unexpected token">>)
    /\ UNCHANGED <<project, options, knowledgeBase, probes, spinner, result, nodeModulesPackages, lockfileAnalysis,
                   topPackages, measurements, probe, stdout>>

\* The deep-scan block (cli/index.ts 37-79).
DeepScan ==
    /\ pc = "deep"
    /\ ~ScanThrows(project.nodeModules)
    /\ ~LockfileThrows(project.lockfiles)
    /\ nodeModulesPackages' = analyzeNodeModules(project.nodeModules, options.threshold)
    /\ lockfileAnalysis' = analyzeLockfile(project.lockfiles, options.threshold)
    /\ result' = MergeDeepScan(result, nodeModulesPackages', lockfileAnalysis',
                               getNodeModulesStats(project.nodeModules),
                               getLockfileStats(project.lockfiles))
    /\ pc' = "measure"
    /\ UNCHANGED <<project, options, knowledgeBase, probes, spinner, topPackages, measurements, probe,
                   stdout, stderr, exitCode>>

\* if (options.measure && result.slowPackages.length > 0) is false
SkipMeasure ==
    /\ pc = "measure"
    /\ ~(options.measure /\ Len(result.slowPackages) > 0)
    /\ pc' = "render"
    /\ UNCHANGED <<project, options, knowledgeBase, probes, spinner, result, nodeModulesPackages, lockfileAnalysis,
                   topPackages, measurements, probe, stdout, stderr, exitCode>>

\* measureTopPackages(result.slowPackages, 5, ...) is called.
MeasureStart ==
    /\ pc = "measure"
    /\ options.measure /\ Len(result.slowPackages) > 0
    /\ topPackages' = TopPackages(result.slowPackages, MeasureLimit)
    /\ measurements' = <<>>
    /\ spinner' = <<"Measuring install times (this may take a while)...">>
    /\ pc' = "measuring"
    /\ UNCHANGED <<project, options, knowledgeBase, result, nodeModulesPackages, lockfileAnalysis,
                   probe, probes, stdout, stderr, exitCode>>

CurrentPackage == topPackages[Len(measurements) + 1]

\* spinner.text = `Measuring ${pkg} (${index + 1}/${total})...`
ProgressText(pkg, index, total) == <<"Measuring ", pkg, " (", index + 1, "/", total, ")...">>

\* The loop of measurePackages reaches package i: onProgress?.(pkg, i, packages.length).
OnProgress ==
    /\ pc = "measuring"
    /\ probe = "idle"
    /\ Len(measurements) < Len(topPackages)
    /\ spinner' = ProgressText(CurrentPackage, Len(measurements), Len(topPackages))
    /\ probe' = "announced"
    /\ UNCHANGED <<project, options, knowledgeBase, pc, result, nodeModulesPackages, lockfileAnalysis,
                   topPackages, measurements, probes, stdout, stderr, exitCode>>

\* measureSinglePackage up to its await: the scratch directory is made, the
\* child spawned and the timer set.
ProbeStart ==
    /\ pc = "measuring"
    /\ probe = "announced"
    /\ probes' = Append(probes, NewProbe(CurrentPackage))
    /\ probe' = "running"
    /\ UNCHANGED <<project, options, knowledgeBase, pc, result, nodeModulesPackages, lockfileAnalysis,
                   topPackages, measurements, spinner, stdout, stderr, exitCode>>

\* mkdtempSync throws outside the try of measureSinglePackage: measureTopPackages
\* rejects and main's catch keeps the heuristic estimates.
ProbeScratchThrows ==
    /\ pc = "measuring"
    /\ probe = "announced"
    /\ spinner' = <<"Measurement failed">>
    /\ probe' = "idle"
    /\ pc' = "render"
    /\ UNCHANGED <<project, options, knowledgeBase, result, nodeModulesPackages, lockfileAnalysis,
                   topPackages, measurements, probes, stdout, stderr, exitCode>>

\* The promise of the running probe settles on the event `settled` (the child,
\* timer and promise after the handler ran); measureSinglePackage builds r,
\* its finally block calls rmSync, and measurePackages pushes r.
ProbeReturns(r, settled, removed) ==
    /\ pc = "measuring"
    /\ probe = "running"
    /\ probes' = [probes EXCEPT ![Len(probes)] =
                     CleanedUp(Settled(probes[Len(probes)], settled), removed)]
    /\ measurements' = Append(measurements, r)
    /\ probe' = "idle"
    /\ UNCHANGED <<project, options, knowledgeBase, pc, result, nodeModulesPackages, lockfileAnalysis,
                   topPackages, spinner, stdout, stderr, exitCode>>

\* child 'close' with code 0 before the timer fires
ProbeSucceeds ==
    \E installTime \in MeasuredTimes :
        ProbeReturns(SucceededMeasurement(CurrentPackage, installTime),
                     [child |-> "closed", code |-> "0", timer |-> "cleared", promise |-> "resolved"], TRUE)

\* child 'close' with a nonzero code before the timer fires
ProbeExitsNonzero ==
    ProbeReturns(FailedMeasurement(CurrentPackage, <<"Exit code ", 1>>),
                 [child |-> "closed", code |-> "1", timer |-> "cleared", promise |-> "rejected"], TRUE)

\* child 'error' before the timer fires: the process could not be spawned
ProbeSpawnError ==
    ProbeReturns(FailedMeasurement(CurrentPackage, <<"spawn npm ENOENT">>),
                 [child |-> "unspawned", code |-> None, timer |-> "cleared", promise |-> "rejected"], TRUE)

\* the timer fires first: child.kill(), reject(new Error('Timeout')). kill()
\* sends SIGTERM to the shell and returns; the continuation runs before any
\* 'close' can be delivered, so rmSync works on a directory the install may
\* still be writing to, and its error is ignored.
ProbeTimeout ==
    \E removed \in BOOLEAN :
        ProbeReturns(FailedMeasurement(CurrentPackage, <<"Timeout">>),
                     [child |-> "signalled", code |-> None, timer |-> "fired", promise |-> "rejected"], removed)

\* 'close' of a child the timer had signalled: with the signal's null code,
\* or with code 0 when the install ended on its own as the signal arrived.
\* Events are delivered only while main awaits a later probe or after it has
\* returned.
ChildClosesLate ==
    /\ (pc = "measuring" /\ probe = "running") \/ pc = "done"
    /\ \E i \in 1..Len(probes) :
          \E code \in {"null", "0"} :
              /\ probes[i].child = "signalled"
              /\ probes' = [probes EXCEPT ![i] = LateClose(probes[i], code)]
    /\ UNCHANGED <<project, options, knowledgeBase, pc, result, nodeModulesPackages, lockfileAnalysis,
                   topPackages, measurements, probe, spinner, stdout, stderr, exitCode>>

\* measurePackages returns its sorted results; main overwrites and recalculates
\* (cli/index.ts 99-113).
MeasureFinish ==
    /\ pc = "measuring"
    /\ probe = "idle"
    /\ Len(measurements) = Len(topPackages)
    /\ LET sorted == StableSort(measurements,
                                [ab \in Range(measurements) \X Range(measurements) |->
                                    InstallTimeBefore(ab[1], ab[2])])
           slowPackages == ApplyMeasurements(result.slowPackages, sorted)
       IN  /\ measurements' = sorted
           /\ result' = [result EXCEPT !.slowPackages = slowPackages,
                                       !.estimatedTotalTime = SumTimes(slowPackages)]
           /\ knowledgeBase' = WrittenThrough(knowledgeBase, result.slowPackages, sorted)
    /\ spinner' = <<"Measurement complete">>
    /\ pc' = "render"
    /\ UNCHANGED <<project, options, nodeModulesPackages, lockfileAnalysis,
                   topPackages, probe, probes, stdout, stderr, exitCode>>

\* Output results based on mode (cli/index.ts 120-129); main returns.
Render ==
    /\ pc = "render"
    /\ \E json, badge, ci \in BOOLEAN :
          stdout' = IF json THEN "json" ELSE IF badge THEN "badge"
                    ELSE IF ci THEN "ci" ELSE "table"
    /\ exitCode' = 0
    /\ pc' = "done"
    /\ UNCHANGED <<project, options, knowledgeBase, probes, spinner, result, nodeModulesPackages, lockfileAnalysis,
                   topPackages, measurements, probe, stderr>>

Next ==
    \/ ProjectDirMissing
    \/ AnalyzeProjectThrows
    \/ AnalyzeProject
    \/ DeepScanThrows
    \/ DeepScan
    \/ SkipMeasure
    \/ MeasureStart
    \/ OnProgress
    \/ ProbeStart
    \/ ProbeScratchThrows
    \/ ProbeSucceeds
    \/ ProbeExitsNonzero
    \/ ProbeSpawnError
    \/ ProbeTimeout
    \/ MeasureFinish
    \/ Render

Spec == Init /\ [][Next]_vars

(***************************************************************************)
(* The Manifest Analyzer on its own: a run without --deep and --measure    *)
(* over the manifests with all three dependency groups.                    *)
(***************************************************************************)
ManifestThresholds == {5 * TimeUnit, 45 * TimeUnit, 50 * TimeUnit}

InitManifest ==
    /\ InitRun(ManifestThresholds)
    /\ ~options.deep /\ ~options.measure
    /\ project \in Projects(options, Manifests)

NextManifest ==
    \/ ProjectDirMissing
    \/ AnalyzeProjectThrows
    \/ AnalyzeProject
    \/ SkipMeasure
    \/ Render

SpecManifest == InitManifest /\ [][NextManifest]_vars

(***************************************************************************)
(* The Measurement Probe on its own: runs with --measure and without       *)
(* --deep over manifests that declare up to six Knowledge Base packages,   *)
(* with the late 'close' of the children a timeout signalled.              *)
(***************************************************************************)
ProbeDependencies ==
    { <<>>,
      <<"left-pad">>,
      <<"bcrypt", "puppeteer">>,
      <<"sharp", "bcrypt", "puppeteer", "electron", "cypress", "grpc">> }

ProbeManifests ==
    {[dependencies |-> d, devDependencies |-> <<>>, optionalDependencies |-> <<>>] :
        d \in ProbeDependencies}

InitProbe ==
    /\ InitRun(Thresholds)
    /\ ~options.deep /\ options.measure
    /\ project \in {p \in Projects(options, ProbeManifests) : p.exists}

NextProbe ==
    \/ AnalyzeProject
    \/ SkipMeasure
    \/ MeasureStart
    \/ OnProgress
    \/ ProbeStart
    \/ ProbeScratchThrows
    \/ ProbeSucceeds
    \/ ProbeExitsNonzero
    \/ ProbeSpawnError
    \/ ProbeTimeout
    \/ ChildClosesLate
    \/ MeasureFinish
    \/ Render

SpecProbe == InitProbe /\ [][NextProbe]_vars

(***************************************************************************)
(* The Installed-Tree Scanner on its own: runs with --deep over an empty   *)
(* manifest, no lockfile and installed trees whose packages meet the       *)
(* rules of analyzeNodeModules in every combination.                       *)
(***************************************************************************)
MaxScanned == 2

InstalledPackage(name, scripts, dependencies, devDependencies, bindingGyp, size) ==
    [name |-> name, isDirectory |-> TRUE, readable |-> TRUE, children |-> <<>>,
     pkg |-> [manifest |-> [version |-> "1.0.0", scripts |-> scripts,
                            dependencies |-> dependencies, devDependencies |-> devDependencies],
              bindingGyp |-> bindingGyp, size |-> size]]

ScannedEntries ==
    { InstalledPackage("sharp", {"install"}, {}, {}, TRUE, 11 * MiB),
      InstalledPackage("puppeteer", {"postinstall"}, {}, {}, FALSE, 4096),
      InstalledPackage("left-pad", {}, {}, {}, TRUE, 4096),
      InstalledPackage("ws", {"preinstall"}, {}, {"node-gyp"}, FALSE, 11 * MiB),
      InstalledPackage("esbuild", {"postinstall"}, {}, {}, FALSE, 10 * MiB + 1),
      InstalledPackage("core-js", {"postinstall"}, {}, {}, FALSE, 10 * MiB),
      InstalledPackage("big-data", {"test"}, {}, {}, FALSE, 11 * MiB),
      InstalledPackage("core-js-bundle", {"install"}, {}, {}, FALSE, 15 * MiB),
      InstalledPackage("es5-ext", {"preinstall"}, {}, {}, FALSE, 15 * MiB + 1),
      [name |-> "empty-dir", isDirectory |-> TRUE, readable |-> TRUE, children |-> <<>>,
       pkg |-> [manifest |-> AbsentFile, bindingGyp |-> TRUE, size |-> 11 * MiB]],
      [name |-> "@tensorflow", isDirectory |-> TRUE, readable |-> TRUE,
       children |-> <<InstalledPackage("tfjs-node", {"install"}, {"node-gyp"}, {}, FALSE, 4096)>>,
       pkg |-> [manifest |-> AbsentFile, bindingGyp |-> FALSE, size |-> 0]],
      UnreadableScope }

ScannedTrees ==
    {[readable |-> TRUE, entries |-> es] : es \in SeqsNoRep(ScannedEntries, MaxScanned)}

InitTree ==
    /\ InitRun(Thresholds)
    /\ options.deep /\ ~options.measure
    /\ project \in {[exists |-> TRUE,
                     packageJson |-> [dependencies |-> <<>>, devDependencies |-> <<>>,
                                      optionalDependencies |-> <<>>],
                     nodeModules |-> t, lockfiles |-> NoLockfiles] : t \in ScannedTrees}

NextTree ==
    \/ AnalyzeProject
    \/ DeepScanThrows
    \/ DeepScan
    \/ SkipMeasure
    \/ Render

SpecTree == InitTree /\ [][NextTree]_vars

(***************************************************************************)
(* The Lockfile Analyzer on its own: runs with --deep over an empty        *)
(* manifest, no node_modules and lockfiles of every format: a              *)
(* package-lock.json with packages, with dependencies, with both (what npm *)
(* writes for lockfileVersion 2) or with neither, beside or without a      *)
(* yarn.lock and a pnpm-lock.yaml.                                         *)
(***************************************************************************)
MaxLockNodes == 2

LockEntry(path, version, hasInstallScript) ==
    [path |-> path, version |-> version, hasInstallScript |-> hasInstallScript]

\* Entries of lockfile.packages: the root, a name at two paths, a workspace
\* path without node_modules and a scoped name.
LockEntries ==
    { LockEntry(<<>>, "1.0.0", None),
      LockEntry(<<"node_modules", "puppeteer">>, "20.1.0", "true"),
      LockEntry(<<"node_modules", "left-pad", "node_modules", "puppeteer">>, "19.0.0", "true"),
      LockEntry(<<"node_modules", "left-pad">>, "1.3.0", None),
      LockEntry(<<"packages", "app">>, "1.0.0", "true"),
      LockEntry(<<"node_modules", "@tensorflow", "tfjs-node">>, "4.2.0", "true") }

LockNode(name, version, hasInstallScript, dependencies) ==
    [name |-> name, version |-> version, hasInstallScript |-> hasInstallScript,
     dependencies |-> dependencies]

\* Nodes below the top level of lockfile.dependencies.
InnerNodes ==
    { LockNode("puppeteer", "19.0.0", "true", undefined),
      LockNode("puppeteer", "19.0.0", None, undefined),
      LockNode("left-pad", "1.3.0", "true", undefined),
      LockNode("left-pad", "1.3.0", None,
               [entries |-> <<LockNode("puppeteer", "18.0.0", "true", undefined)>>]) }

\* The dependencies field of a node: the keys of an object are distinct.
InnerDependencies ==
    {undefined} \cup
    {[entries |-> <<c>>] : c \in InnerNodes} \cup
    {[entries |-> <<LockNode("left-pad", "1.3.0", "true", undefined),
                     LockNode("puppeteer", "19.0.0", None, undefined)>>]}

TopNodes ==
    {LockNode(n, "20.1.0", s, d) :
        n \in {"puppeteer", "left-pad"}, s \in {None, "true"}, d \in InnerDependencies} \cup
    {LockNode("bcrypt", "5.1.0", None, undefined)}

DistinctNames(nodes) ==
    \A i, j \in 1..Len(nodes) : nodes[i].name = nodes[j].name => i = j

LockTrees == {t \in SeqsNoRep(TopNodes, MaxLockNodes) : DistinctNames(t)}

LockedNpmLockfiles ==
    {UnparsableFile} \cup
    {[lockfileVersion |-> 3, packages |-> undefined, dependencies |-> undefined]} \cup
    {[lockfileVersion |-> 3, packages |-> [entries |-> es], dependencies |-> undefined] :
        es \in SeqsNoRep(LockEntries, MaxLockNodes)} \cup
    {[lockfileVersion |-> 1, packages |-> undefined, dependencies |-> [entries |-> t]] :
        t \in LockTrees} \cup
    {[lockfileVersion |-> 2, packages |-> [entries |-> es], dependencies |-> [entries |-> <<n>>]] :
        es \in SeqsNoRep(LockEntries, MaxLockNodes),
        n \in {m \in TopNodes : m.dependencies = undefined}}

LockedLockfiles ==
    {[npm |-> l, yarn |-> AbsentFile, pnpm |-> FALSE] : l \in LockedNpmLockfiles} \cup
    {[npm |-> [lockfileVersion |-> 3, packages |-> [entries |-> <<e>>], dependencies |-> undefined],
      yarn |-> y, pnpm |-> TRUE] : e \in LockEntries, y \in YarnLockfiles} \cup
    {[npm |-> AbsentFile, yarn |-> y, pnpm |-> b] : y \in YarnLockfiles, b \in BOOLEAN} \cup
    {[npm |-> AbsentFile, yarn |-> AbsentFile, pnpm |-> b] : b \in BOOLEAN}

InitLock ==
    /\ InitRun(Thresholds)
    /\ options.deep /\ ~options.measure
    /\ project \in {[exists |-> TRUE,
                     packageJson |-> [dependencies |-> <<>>, devDependencies |-> <<>>,
                                      optionalDependencies |-> <<>>],
                     nodeModules |-> AbsentFile, lockfiles |-> l] : l \in LockedLockfiles}

NextLock ==
    \/ AnalyzeProject
    \/ DeepScanThrows
    \/ DeepScan
    \/ SkipMeasure
    \/ Render

SpecLock == InitLock /\ [][NextLock]_vars

(***************************************************************************)
(* The Suggestion Ranker on its own: generateSuggestions applied to lists  *)
(* of PackageAnalysis records, ordered by time as main's sort leaves them, *)
(* with the optional fields alternative and note present or absent in      *)
(* every combination and times on both sides of the priority limits.       *)
(***************************************************************************)
MaxRanked == 3

RankedTimes == {0, 9 * TimeUnit, 10 * TimeUnit, 19 * TimeUnit, 20 * TimeUnit}

RankedPackage(name, estimatedTime, alternative, note) ==
    [name |-> name, version |-> "1.0.0", isSlowPackage |-> TRUE,
     estimatedTime |-> estimatedTime, reason |-> "native-compilation",
     alternative |-> alternative, note |-> note,
     hasPostinstall |-> None, identity |-> "literal"]

RankedFields ==
    [estimatedTime : RankedTimes, alternative : {None, "sass"},
     note : {NoText, <<"Requires native compilation">>}]

RankedLists ==
    UNION {
        {[i \in 1..n |-> RankedPackage(PlainNames[i], f[i].estimatedTime,
                                       f[i].alternative, f[i].note)] :
            f \in {g \in [1..n -> RankedFields] :
                      \A i \in 1..n - 1 : g[i].estimatedTime >= g[i + 1].estimatedTime}} :
        n \in 0..MaxRanked}

\* main after result.slowPackages.sort(...) has returned (cli/index.ts 62).
InitRanker ==
    /\ options = [threshold |-> 5 * TimeUnit, deep |-> TRUE, measure |-> FALSE]
    /\ project = [exists |-> TRUE,
                  packageJson |-> [dependencies |-> <<>>, devDependencies |-> <<>>,
                                   optionalDependencies |-> <<>>],
                  nodeModules |-> AbsentFile, lockfiles |-> NoLockfiles]
    /\ \E slowPackages \in RankedLists :
          result = [totalPackages |-> Len(slowPackages),
                    slowPackages |-> slowPackages,
                    estimatedTotalTime |-> SumTimes(slowPackages),
                    potentialSavings |-> 0,
                    suggestions |-> <<>>,
                    nodeModulesStats |-> undefined,
                    lockfileStats |-> undefined]
    /\ pc = "suggest"
    /\ knowledgeBase = SLOW_PACKAGES
    /\ nodeModulesPackages = <<>>
    /\ lockfileAnalysis = [lockfileType |-> "none", totalDependencies |-> 0,
                           packagesWithInstallScripts |-> <<>>, slowPackages |-> <<>>]
    /\ topPackages = <<>>
    /\ measurements = <<>>
    /\ probe = "idle"
    /\ probes = <<>>
    /\ spinner = NoText
    /\ stdout = "none"
    /\ stderr = NoText
    /\ exitCode = -1

\* result.suggestions = generateSuggestions(result.slowPackages) and the
\* reduce into result.potentialSavings (cli/index.ts 75-77).
RegenerateSuggestions ==
    /\ pc = "suggest"
    /\ result' = [result EXCEPT
                     !.suggestions = generateSuggestions(result.slowPackages),
                     !.potentialSavings = SumSavings(generateSuggestions(result.slowPackages))]
    /\ pc' = "measure"
    /\ UNCHANGED <<project, options, knowledgeBase, probes, spinner, nodeModulesPackages,
                   lockfileAnalysis, topPackages, measurements, probe, stdout, stderr, exitCode>>

NextRanker ==
    \/ RegenerateSuggestions
    \/ SkipMeasure
    \/ Render

SpecRanker == InitRanker /\ [][NextRanker]_vars

(***************************************************************************)
(* Properties                                                              *)
(***************************************************************************)
Names(slowPackages) == {slowPackages[i].name : i \in 1..Len(slowPackages)}

\* The entries of slowPackages with the given name.
Named(slowPackages, name) == SelectSeq(slowPackages, LAMBDA p : p.name = name)

\* main has reached the output stage with a result.
AtRender == pc \in {"render", "done"}

\* measurePackages returned and main applied its results.
MeasurementApplied ==
    /\ AtRender
    /\ Len(topPackages) > 0
    /\ Len(measurements) = Len(topPackages)

\* The slow list and count analyzeProject returned for the project's manifest.
ManifestResult == analyzeProject(project.packageJson, options.threshold)

\* The names the deep scan reported.
DeepNames == Names(nodeModulesPackages) \cup Names(lockfileAnalysis.slowPackages)

\* C1: no two slowPackages entries of a result have the same name.
C1_NoDuplicateNames ==
    result # undefined =>
        \A i, j \in 1..Len(result.slowPackages) :
            i # j => result.slowPackages[i].name # result.slowPackages[j].name

\* C2: when the result is rendered, estimatedTotalTime is the sum of
\* estimatedTime over slowPackages, whatever phases ran.
C2_TotalIsSum ==
    AtRender => result.estimatedTotalTime = SumTimes(result.slowPackages)

\* C2 witness: a rendered result to which the deep scan appended an entry and
\* in which a measurement overwrote a time.
C2_Witness ==
    /\ pc = "done"
    /\ MeasurementApplied
    /\ \E i \in 1..Len(measurements) : measurements[i].success
    /\ Len(result.slowPackages) > Len(ManifestResult.slowPackages)
    /\ Len(ManifestResult.slowPackages) > 0
    /\ DeepNames \cap Names(ManifestResult.slowPackages) # {}

\* C3: in the final result slowPackages is ordered by non-increasing estimatedTime.
C3_SortedByTime ==
    AtRender =>
        \A i \in 1..Len(result.slowPackages) - 1 :
            result.slowPackages[i].estimatedTime >= result.slowPackages[i + 1].estimatedTime

\* C4: in the final result every suggestion's currentTime and potentialSavings
\* follow from the estimatedTime of the slowPackages entry it names: the time
\* itself for replace, floor(time * 0.5) for optimize.
C4_SavingsMatchFinalTimes ==
    AtRender =>
        \A k \in 1..Len(result.suggestions) :
            LET s == result.suggestions[k]
            IN  \E i \in 1..Len(result.slowPackages) :
                    LET p == result.slowPackages[i]
                    IN  /\ p.name = s.packageName
                        /\ s.currentTime = p.estimatedTime
                        /\ s.type = "replace" => s.potentialSavings = p.estimatedTime
                        /\ s.type = "optimize" => s.potentialSavings = HalfFloor(p.estimatedTime)

\* C5: a name of the Manifest Analyzer's slow list that the deep scan also
\* reports has exactly one merged entry, the manifest's record; once that
\* package is successfully measured the entry carries the measured time.
C5_ManifestAuthority ==
    (options.deep /\ pc \in {"measure", "measuring", "render", "done"}) =>
        \A k \in 1..Len(ManifestResult.slowPackages) :
            LET r == ManifestResult.slowPackages[k]
                entries == Named(result.slowPackages, r.name)
                measured == {i \in 1..Len(measurements) :
                                measurements[i].name = r.name /\ measurements[i].success}
            IN  r.name \in DeepNames =>
                    /\ Len(entries) = 1
                    /\ IF MeasurementApplied /\ measured # {}
                       THEN \E i \in measured :
                               entries[1] = [r EXCEPT
                                   !.estimatedTime = measurements[i].installTime,
                                   !.note = <<"Measured: ", measurements[i].installTime, "s">>]
                       ELSE entries[1] = r

\* C5 witness: a package declared in the manifest, found by both deep-scan
\* analyzers and measured successfully with a time other than its estimate.
C5_Witness ==
    /\ pc = "done"
    /\ options.deep
    /\ MeasurementApplied
    /\ \E k \in 1..Len(ManifestResult.slowPackages) :
          LET r == ManifestResult.slowPackages[k]
          IN  /\ r.name \in Names(nodeModulesPackages)
              /\ r.name \in Names(lockfileAnalysis.slowPackages)
              /\ \E i \in 1..Len(measurements) :
                    /\ measurements[i].name = r.name
                    /\ measurements[i].success
                    /\ measurements[i].installTime # r.estimatedTime

\* C6: every entry the analyzers put into slowPackages has an estimatedTime
\* of at least the threshold.
C6_EntriesReachThreshold ==
    (result # undefined /\ pc = "measure") =>
        \A i \in 1..Len(result.slowPackages) :
            result.slowPackages[i].estimatedTime >= options.threshold

\* The names package.json declares in any of its three groups.
Declared(packageJson) ==
    Range(packageJson.dependencies) \cup Range(packageJson.devDependencies)
        \cup Range(packageJson.optionalDependencies)

\* The Knowledge Base entries for exactly this name.
KnowledgeBaseEntries(name) ==
    {i \in 1..Len(SLOW_PACKAGES) : SLOW_PACKAGES[i].name = name}

\* package.json declares exactly the one name, in at least one group.
DeclaresOnly(packageJson, name) == Declared(packageJson) = {name}

C8_TotalIsMaxOfCounts ==
    (options.deep /\ pc = "measure") =>
        result.totalPackages =
            Max(Max(ManifestResult.totalPackages, lockfileAnalysis.totalDependencies),
                Len(scanNodeModules(project.nodeModules)))

\* C9: once the manifest has been analysed, a failure of the deep-scan or of
\* the measurement phase never makes the process exit with a nonzero code.
C9_DeepScanFailureKeepsExitCode ==
    result # undefined => exitCode # 1

\* C10: with package.json absent the run shows an error and exits nonzero;
\* nothing is rendered and neither the deep scan nor a measurement starts.
C10_AbsentManifestAborts ==
    project.packageJson = AbsentFile =>
        /\ pc \in {"start", "exited"}
        /\ stdout = "none"
        /\ result = undefined
        /\ nodeModulesPackages = <<>> /\ lockfileAnalysis = undefined
        /\ topPackages = <<>> /\ measurements = <<>> /\ probe = "idle"
        /\ pc = "exited" => exitCode = 1 /\ stderr # NoText

\* C10 witness: a run with --deep and --measure in an existing directory
\* without package.json has exited.
C10_Witness ==
    /\ pc = "exited"
    /\ project.exists
    /\ project.packageJson = AbsentFile
    /\ options.deep /\ options.measure

\* The slow list main holds when the measurement phase starts.
HeuristicSlowPackages ==
    IF options.deep
    THEN MergeDeepScan(ManifestResult, nodeModulesPackages, lockfileAnalysis,
                       getNodeModulesStats(project.nodeModules),
                       getLockfileStats(project.lockfiles)).slowPackages
    ELSE ManifestResult.slowPackages

\* Probe p ended by the timer, or by 'close' with a nonzero code.
TimedOutOrExited(p) ==
    \/ p.timer = "fired"
    \/ (p.promise = "rejected" /\ p.timer = "cleared" /\ p.child = "closed")

\* C11: a probe that times out or exits nonzero gives a failed result with a
\* reason and nothing is thrown: the run does not exit with an error, the
\* other packages are measured all the same, and in the final result the
\* entry that probe was started for has the estimatedTime and note of the
\* heuristics.
C11_FailedProbeKeepsEstimate ==
    \A j \in 1..Len(probes) :
        TimedOutOrExited(probes[j]) =>
            /\ \E i \in 1..Len(measurements) :
                  /\ measurements[i].name = probes[j].name
                  /\ ~measurements[i].success
                  /\ measurements[i].error # NoText /\ measurements[i].error # None
            /\ exitCode # 1 /\ stderr = NoText
            /\ (AtRender /\ spinner # <<"Measurement failed">>)
                   => Len(measurements) = Len(topPackages)
            /\ AtRender =>
                  /\ result.slowPackages[j].name = probes[j].name
                  /\ result.slowPackages[j].estimatedTime = HeuristicSlowPackages[j].estimatedTime
                  /\ result.slowPackages[j].note = HeuristicSlowPackages[j].note

\* C12: while the install process of a timed-out probe has not terminated, the
\* probe's result is not recorded, its scratch directory is not removed and
\* no later probe is launched.
C12_TimedOutProcessTerminated ==
    \A j \in 1..Len(probes) :
        (probes[j].timer = "fired" /\ probes[j].child # "closed") =>
            /\ Len(measurements) < j
            /\ probes[j].tmpDir = "present"
            /\ Len(probes) = j

\* C13: the scratch directory of a probe is removed before the probe's result
\* is returned, on every exit path, so that none is left once measurePackages
\* has returned.
C13_ScratchRemovedBeforeResult ==
    /\ \A j \in 1..Len(probes) :
          j <= Len(measurements) => probes[j].tmpDir = "removed"
    /\ AtRender => \A j \in 1..Len(probes) : probes[j].tmpDir = "removed"

\* The probes main is awaiting.
InFlight == {j \in 1..Len(probes) : probes[j].promise = "pending"}

\* C14: probes run one after the other: at most one is awaited at any time,
\* and it is the last one started; a probe is started only when every earlier
\* one has pushed its result and after onProgress announced its package; a
\* run starts at most 5 probes, for the first 5 entries of slowPackages in
\* their order, and none when the list is empty.
C14_ProbesSequential ==
    /\ Cardinality(InFlight) <= 1
    /\ InFlight \subseteq {Len(probes)}
    /\ (InFlight # {}) = (probe = "running")
    /\ Len(probes) = Len(measurements) + (IF probe = "running" THEN 1 ELSE 0)
    /\ probe = "running" =>
          spinner = ProgressText(probes[Len(probes)].name, Len(probes) - 1, Len(topPackages))
    /\ Len(probes) <= MeasureLimit
    /\ result = undefined => probes = <<>>
    /\ result # undefined =>
          /\ Len(probes) <= Len(result.slowPackages)
          /\ \A j \in 1..Len(probes) : probes[j].name = result.slowPackages[j].name
    /\ pc = "measuring" =>
          \A k \in 1..Len(result.slowPackages) - 1 :
              result.slowPackages[k].estimatedTime >= result.slowPackages[k + 1].estimatedTime

\* C14 witness: a run over six slow packages has finished after five probes.
C14_Witness ==
    /\ pc = "done"
    /\ Len(result.slowPackages) = 6
    /\ Len(probes) = 5
    /\ Len(measurements) = 5
    /\ \E j \in 1..5 : probes[j].timer = "fired"
    /\ \E j \in 1..5 : probes[j].promise = "resolved"

\* The names with a successful measurement.
MeasuredNames(ms) == {ms[i].name : i \in {k \in 1..Len(ms) : ms[k].success}}

\* C15: the measurement phase leaves the number and order of the slowPackages
\* entries and every field but estimatedTime and note as they were, and
\* leaves an entry whose name has no successful measurement entirely as it was.
C15_RefinementFrame ==
    [][(pc = "measuring" /\ result # undefined) =>
          LET old == result.slowPackages
              new == result'.slowPackages
          IN  /\ Len(new) = Len(old)
              /\ \A k \in 1..Len(old) :
                    /\ [new[k] EXCEPT !.estimatedTime = old[k].estimatedTime,
                                      !.note = old[k].note] = old[k]
                    /\ old[k].name \notin MeasuredNames(measurements') => new[k] = old[k]]_vars

\* C15 witness: measurement has overwritten one entry and left another, whose
\* probe failed, as it was.
C15_Witness ==
    /\ pc = "done"
    /\ MeasurementApplied
    /\ \E k \in 1..Len(result.slowPackages) :
          /\ result.slowPackages[k].name \in MeasuredNames(measurements)
          /\ result.slowPackages[k].note[1] = "Measured: "
    /\ \E k \in 1..Len(result.slowPackages) :
          /\ result.slowPackages[k].name \in Names(Take(result.slowPackages, MeasureLimit))
          /\ result.slowPackages[k].name \notin MeasuredNames(measurements)

\* C16: aggregating the manifest result again, with a deep scan that brings
\* no evidence beyond the names the manifest result already has, gives the
\* result of the manifest analysis: the same slowPackages in the same order,
\* the same estimatedTotalTime, suggestions and potentialSavings.
C16_MergeIdempotent ==
    (pc = "measure" /\ options.deep /\ DeepNames \subseteq Names(ManifestResult.slowPackages)) =>
        /\ result.slowPackages = ManifestResult.slowPackages
        /\ result.estimatedTotalTime = ManifestResult.estimatedTotalTime
        /\ result.suggestions = ManifestResult.suggestions
        /\ result.potentialSavings = ManifestResult.potentialSavings

\* C16 witness: the installed tree and the lockfile both report a package the
\* manifest result already has, and nothing else.
C16_Witness ==
    /\ pc = "measure"
    /\ options.deep
    /\ Names(nodeModulesPackages) # {}
    /\ Names(lockfileAnalysis.slowPackages) # {}
    /\ DeepNames \subseteq Names(ManifestResult.slowPackages)
    /\ Len(ManifestResult.slowPackages) = 2

\* C17: in the final result potentialSavings is the sum of potentialSavings
\* over the suggestions of that result, also after the deep scan regenerated
\* the suggestions.
C17_SavingsIsSum ==
    AtRender =>
        result.potentialSavings =
            SumOver(result.suggestions,
                    [s \in Range(result.suggestions) |-> s.potentialSavings])

\* C17 witness: a rendered result whose suggestions the deep scan regenerated
\* with more suggestions than the manifest analysis gave, a replace and an
\* optimize among them.
C17_Witness ==
    /\ pc = "done"
    /\ options.deep
    /\ Len(result.suggestions) > Len(ManifestResult.suggestions)
    /\ \E k \in 1..Len(result.suggestions) : result.suggestions[k].type = "replace"
    /\ \E k \in 1..Len(result.suggestions) : result.suggestions[k].type = "optimize"

\* C18: the Knowledge Base has at most one entry per name, every entry has an
\* estimatedTime of a positive whole number of seconds and a reason other
\* than 'measured', and for every name the manifest declares the lookup is an
\* exact, case-sensitive match: isKnownSlowPackage is true exactly when
\* findSlowPackage returns an entry, and that entry has the name asked for.
C18_KnowledgeBase ==
    /\ \A i, j \in 1..Len(SLOW_PACKAGES) :
          SLOW_PACKAGES[i].name = SLOW_PACKAGES[j].name => i = j
    /\ \A i \in 1..Len(SLOW_PACKAGES) :
          /\ SLOW_PACKAGES[i].estimatedTime \in Nat \ {0}
          /\ SLOW_PACKAGES[i].estimatedTime % TimeUnit = 0
          /\ SLOW_PACKAGES[i].reason # "measured"
    /\ project.packageJson \notin {AbsentFile, UnparsableFile} =>
          \A n \in Declared(project.packageJson) :
              /\ isKnownSlowPackage(n) = (findSlowPackage(n) # undefined)
              /\ findSlowPackage(n) # undefined =>
                    /\ findSlowPackage(n).name = n
                    /\ Cardinality(KnowledgeBaseEntries(n)) = 1
              /\ n = "Puppeteer" => ~isKnownSlowPackage(n)

\* C18 witness: the manifest analysed declares a Knowledge Base name, the same
\* name in another case and an unknown name.
C18_Witness ==
    /\ pc = "measure"
    /\ {"puppeteer", "Puppeteer", "left-pad"} \subseteq Declared(project.packageJson)
    /\ Names(result.slowPackages) = {"puppeteer"}

\* C19: no run modifies the Knowledge Base: whatever analysis, merge and
\* measurement have done, every entry of the table has the field values it
\* had at startup.
C19_KnowledgeBaseUnchanged == knowledgeBase = SLOW_PACKAGES

\* C19 witness: measurement has overwritten the time and note of a result
\* record copied from a Knowledge Base entry, in a run with a deep scan.
C19_Witness ==
    /\ pc = "done"
    /\ options.deep
    /\ MeasurementApplied
    /\ \E k \in 1..Len(result.slowPackages) :
          LET p == result.slowPackages[k]
          IN  /\ isKnownSlowPackage(p.name)
              /\ p.note[1] = "Measured: "
              /\ p.estimatedTime # findSlowPackage(p.name).estimatedTime

\* The rule of the Installed-Tree Scanner that an installed package meets
\* first, or "none".
FirstRule(pkg, thresholdSeconds) ==
    IF \E i \in KnowledgeBaseEntries(pkg.name) :
          SLOW_PACKAGES[i].estimatedTime >= thresholdSeconds
    THEN "knowledge-base"
    ELSE IF pkg.hasNodeGyp THEN "native-build"
    ELSE IF pkg.hasPostinstall /\ pkg.size > 10 * MiB THEN "install-script"
    ELSE "none"

InstallScriptRecords(name) ==
    {j \in 1..Len(nodeModulesPackages) :
        /\ nodeModulesPackages[j].name = name
        /\ nodeModulesPackages[j].note = <<"Has postinstall script and large package size">>}

\* C21: a record of the install-script rule exists only for a package with an
\* install-time script and an approximate size strictly over 10 MiB; its
\* reason is postinstall and its estimate is the least whole number of
\* seconds k with size <= k * 5 MiB, which is at least 3.
C21_InstallScriptRule ==
    (pc = "measure" /\ options.deep) =>
        LET pkgs == scanNodeModules(project.nodeModules)
        IN  \A i \in 1..Len(pkgs) :
               \A j \in InstallScriptRecords(pkgs[i].name) :
                  LET r == nodeModulesPackages[j]
                      k == r.estimatedTime \div TimeUnit
                  IN  /\ pkgs[i].hasPostinstall
                      /\ pkgs[i].size > 10 * MiB
                      /\ r.reason = "postinstall"
                      /\ r.estimatedTime = k * TimeUnit
                      /\ (k - 1) * 5 * MiB < pkgs[i].size
                      /\ pkgs[i].size <= k * 5 * MiB
                      /\ k >= 3

\* C21 witness: a package with an install script and 10 MiB + 1 byte got the
\* record with 3 s, beside a package with an install script and exactly
\* 10 MiB that got none.
C21_Witness ==
    /\ pc = "measure"
    /\ options.deep
    /\ Names(scanNodeModules(project.nodeModules)) = {"esbuild", "core-js"}
    /\ Names(nodeModulesPackages) = {"esbuild"}
    /\ InstallScriptRecords("esbuild") = {1}
    /\ nodeModulesPackages[1].estimatedTime = 3 * TimeUnit
    /\ nodeModulesPackages[1].reason = "postinstall"

\* The deep scan has analysed the lockfiles of the project.
Analysed == pc = "measure" /\ options.deep

\* What the walk of the nested form reports for lockfile.dependencies.
NestedAnalysis(lockfile, thresholdSeconds) ==
    LET walk == analyzeNpmDependencies(lockfile.dependencies.entries,
                    [slowPackages |-> <<>>, installScripts |-> <<>>], thresholdSeconds)
    IN  [lockfileType |-> "npm",
         totalDependencies |-> countDependencies(lockfile.dependencies.entries),
         packagesWithInstallScripts |-> walk.installScripts,
         slowPackages |-> SortByTime(walk.slowPackages)]

\* What the loop over the flat form reports for lockfile.packages.
FlatAnalysis(lockfile, thresholdSeconds) ==
    [lockfileType |-> "npm",
     totalDependencies |-> Len(NonRoot(lockfile.packages.entries)),
     packagesWithInstallScripts |-> FlatInstallScripts(lockfile.packages.entries),
     slowPackages |-> SortByTime(FlatSlow(lockfile.packages.entries, thresholdSeconds))]

NoFindings(lockfileType) ==
    [lockfileType |-> lockfileType, totalDependencies |-> 0,
     packagesWithInstallScripts |-> <<>>, slowPackages |-> <<>>]

\* C22: the lockfile analysis is that of one source, taken in a fixed order:
\* the nested form of package-lock.json when the file has it, the flat form
\* only when the nested form is absent, and without package-lock.json and
\* yarn.lock a pnpm-lock.yaml is reported as 'pnpm' with no finding and a
\* zero count, and no lockfile at all as 'none' with no finding.
C22_LockfilePreference ==
    Analysed =>
        LET l == project.lockfiles
        IN  IF l.npm # AbsentFile
            THEN lockfileAnalysis =
                    IF l.npm.dependencies # undefined
                    THEN NestedAnalysis(l.npm, options.threshold)
                    ELSE IF l.npm.packages # undefined
                    THEN FlatAnalysis(l.npm, options.threshold)
                    ELSE NoFindings("npm")
            ELSE IF l.yarn # AbsentFile
            THEN lockfileAnalysis.lockfileType = "yarn"
            ELSE lockfileAnalysis = NoFindings(IF l.pnpm THEN "pnpm" ELSE "none")

\* The names extractPackageName gives for the paths of the flat form.
FlatNames(entries) ==
    {extractPackageName(entries[i].path).name :
        i \in {j \in 1..Len(entries) : /\ entries[j].path # <<>>
                                       /\ extractPackageName(entries[j].path) # undefined}}

RECURSIVE NodeCount(_)
\* The number of nodes of a dependency tree.
NodeCount(deps) ==
    IF deps = <<>> THEN 0
    ELSE 1 + NodeCount(Tail(deps))
           + (IF Head(deps).dependencies = undefined THEN 0
              ELSE NodeCount(Head(deps).dependencies.entries))

\* C23: for a package-lock.json with the flat form alone, totalDependencies
\* is the number of distinct package names of its paths, the root and the
\* paths without a name left out; with the nested form alone it is the
\* number of nodes of the dependency tree.
C23_TotalDependencies ==
    (Analysed /\ project.lockfiles.npm # AbsentFile) =>
        LET lockfile == project.lockfiles.npm
        IN  /\ (lockfile.packages # undefined /\ lockfile.dependencies = undefined) =>
                   /\ lockfileAnalysis.totalDependencies
                          = Cardinality(FlatNames(lockfile.packages.entries))
                   /\ result.lockfileStats.totalDeps
                          = Cardinality(FlatNames(lockfile.packages.entries))
            /\ (lockfile.packages = undefined /\ lockfile.dependencies # undefined) =>
                   /\ lockfileAnalysis.totalDependencies = NodeCount(lockfile.dependencies.entries)
                   /\ result.lockfileStats.totalDeps = NodeCount(lockfile.dependencies.entries)

\* C24: the install-script names of a lockfile analysis form a set: no name
\* appears twice, and the installScriptCount of lockfileStats is the number
\* of distinct names with an install-script flag.
C24_InstallScriptNamesDistinct ==
    Analysed =>
        LET names == lockfileAnalysis.packagesWithInstallScripts
        IN  /\ \A i, j \in 1..Len(names) : names[i] = names[j] => i = j
            /\ result.lockfileStats.installScriptCount = Cardinality(Range(names))

RECURSIVE PreOrder(_)
\* The nodes of a dependency tree, each before its nested dependencies and
\* these before its next sibling.
PreOrder(deps) ==
    IF deps = <<>> THEN <<>>
    ELSE <<Head(deps)>>
         \o (IF Head(deps).dependencies = undefined THEN <<>>
             ELSE PreOrder(Head(deps).dependencies.entries))
         \o PreOrder(Tail(deps))

\* The package-lock.json of the project has the nested form alone.
NestedOnly ==
    /\ project.lockfiles.npm \notin {AbsentFile, UnparsableFile}
    /\ project.lockfiles.npm.packages = undefined
    /\ project.lockfiles.npm.dependencies # undefined

\* C25: the walk of the nested form gives one finding per name, whatever the
\* number of nodes of that name: a Knowledge Base name that reaches the
\* threshold has exactly one finding, with the version and the
\* install-script flag of its first node in walk order, and any other name
\* has none.
C25_NestedWalkDeduplicates ==
    (Analysed /\ NestedOnly) =>
        LET walk == PreOrder(project.lockfiles.npm.dependencies.entries)
            found == lockfileAnalysis.slowPackages
        IN  /\ Names(found) \subseteq {walk[i].name : i \in 1..Len(walk)}
            /\ \A i \in 1..Len(walk) :
                  LET name == walk[i].name
                      first == CHOOSE j \in 1..Len(walk) :
                                  /\ walk[j].name = name
                                  /\ \A k \in 1..Len(walk) : walk[k].name = name => j <= k
                      slow == \E e \in KnowledgeBaseEntries(name) :
                                  SLOW_PACKAGES[e].estimatedTime >= options.threshold
                  IN  /\ Len(Named(found, name)) = IF slow THEN 1 ELSE 0
                      /\ slow => /\ Named(found, name)[1].version = walk[first].version
                                 /\ Named(found, name)[1].hasPostinstall
                                        = walk[first].hasInstallScript

\* C25 witness: puppeteer is a dependency of left-pad, flagged and at version
\* 19.0.0, and after it a top-level node, unflagged and at version 20.1.0;
\* the one finding carries the version and flag of the node under left-pad.
C25_Witness ==
    /\ Analysed
    /\ NestedOnly
    /\ LET walk == PreOrder(project.lockfiles.npm.dependencies.entries)
       IN  /\ Len(walk) = 3
           /\ walk[1].name = "left-pad"
           /\ walk[2] = LockNode("puppeteer", "19.0.0", "true", undefined)
           /\ walk[3] = LockNode("puppeteer", "20.1.0", None, undefined)
    /\ Len(lockfileAnalysis.slowPackages) = 1
    /\ lockfileAnalysis.slowPackages[1].name = "puppeteer"
    /\ lockfileAnalysis.slowPackages[1].version = "19.0.0"
    /\ lockfileAnalysis.slowPackages[1].hasPostinstall = "true"

\* The Suggestion Ranker has run on result.slowPackages.
Ranked == pc \in {"measure", "render", "done"} /\ result # undefined

\* The suggestions of the result for a package name.
SuggestionsOf(name) ==
    SelectSeq(result.suggestions, LAMBDA s : s.packageName = name)

\* C26: the Suggestion Ranker gives every slow package at most one
\* suggestion: none when the package has neither alternative nor note, a
\* replace suggestion when it has an alternative, with or without a note,
\* and otherwise an optimize suggestion whose text is the note; there are
\* never more suggestions than slow packages.
C26_OneSuggestionPerPackage ==
    Ranked =>
        /\ Len(result.suggestions) <= Len(result.slowPackages)
        /\ \A k \in 1..Len(result.suggestions) :
              result.suggestions[k].packageName \in Names(result.slowPackages)
        /\ \A i \in 1..Len(result.slowPackages) :
              LET pkg == result.slowPackages[i]
                  ss == SuggestionsOf(pkg.name)
              IN  /\ (pkg.alternative = None /\ pkg.note = NoText) => Len(ss) = 0
                  /\ pkg.alternative # None =>
                        /\ Len(ss) = 1
                        /\ ss[1].type = "replace"
                        /\ ss[1].suggestion # pkg.note
                  /\ (pkg.alternative = None /\ pkg.note # NoText) =>
                        /\ Len(ss) = 1
                        /\ ss[1].type = "optimize"
                        /\ ss[1].suggestion = pkg.note

\* C26 witness: three packages were ranked, one with an alternative and a
\* note, one with a note alone and one with neither, and the result has the
\* two suggestions.
C26_Witness ==
    /\ Ranked
    /\ Len(result.slowPackages) = 3
    /\ result.slowPackages[1].alternative # None /\ result.slowPackages[1].note # NoText
    /\ result.slowPackages[2].alternative = None /\ result.slowPackages[2].note # NoText
    /\ result.slowPackages[3].alternative = None /\ result.slowPackages[3].note = NoText
    /\ Len(result.suggestions) = 2
    /\ {result.suggestions[k].type : k \in 1..2} = {"replace", "optimize"}

AccessibleEntries(nodeModules) ==
    [nodeModules EXCEPT !.entries = SelectSeq(@, LAMBDA entry : entry.readable)]

\* C28: when node_modules itself can be read, a failure inside it (a package
\* directory without a readable manifest, a scope directory that cannot be
\* opened) does not end the run, and the scan returns the records of all the
\* other packages.
C28_ScanSurvivesEntryFailure ==
    (/\ options.deep
     /\ result # undefined
     /\ project.nodeModules # AbsentFile
     /\ project.nodeModules.readable
     /\ ~LockfileThrows(project.lockfiles)) =>
        /\ pc # "exited"
        /\ pc \in {"measure", "render", "done"} =>
              Names(nodeModulesPackages)
                  = Names(analyzeNodeModules(AccessibleEntries(project.nodeModules),
                                             options.threshold))

\* C29: in the result a run renders, potentialSavings does not exceed
\* estimatedTotalTime, with or without measurement.
C29_SavingsWithinTotal ==
    AtRender => result.potentialSavings <= result.estimatedTotalTime

\* The probes whose promise has the given state.
ProbesWith(promise) == {j \in 1..Len(probes) : probes[j].promise = promise}

\* C30: every probe has one outcome, that of the first of close, error and
\* timeout: it is a success exactly when the install closed with exit code 0
\* while the timer was armed; close and error cancel the timer; and one
\* result is recorded per decided probe, a success exactly for a resolved
\* promise, whatever event comes after the decision.
C30_OneOutcomePerProbe ==
    /\ Len(measurements) = Cardinality(ProbesWith("resolved") \cup ProbesWith("rejected"))
    /\ Cardinality({i \in 1..Len(measurements) : measurements[i].success})
           = Cardinality(ProbesWith("resolved"))
    /\ pc = "measuring" =>
          \A j \in 1..Len(measurements) :
              /\ measurements[j].name = probes[j].name
              /\ measurements[j].success <=> probes[j].promise = "resolved"
    /\ \A j \in 1..Len(probes) :
          /\ probes[j].promise = "resolved" <=>
                (probes[j].child = "closed" /\ probes[j].code = "0" /\ probes[j].timer = "cleared")
          /\ probes[j].child \in {"closed", "unspawned"} => probes[j].timer # "armed"
          /\ probes[j].timer = "fired" => probes[j].promise = "rejected"

\* C30 witness: the run is over; the install of a timed-out probe has closed
\* with exit code 0 after the timeout, and the probe's one result is still
\* the failure; another probe succeeded.
C30_Witness ==
    /\ pc = "done"
    /\ Len(probes) = 2
    /\ probes[1].timer = "fired"
    /\ probes[1].child = "closed"
    /\ probes[1].code = "0"
    /\ probes[1].promise = "rejected"
    /\ probes[2].promise = "resolved"
    /\ Len(measurements) = 2
    /\ \E i \in 1..2 : measurements[i].name = probes[1].name /\ ~measurements[i].success
    /\ \E i \in 1..2 : measurements[i].name = probes[2].name /\ measurements[i].success

=============================================================================
